---- MODULE Spec2Model ----
(***************************************************************************)
(* Model of the ratli rate limiter: the MemoryStorage store (consume,      *)
(* getStatus, delete, reset, cleanup, destroy, eviction hint), the         *)
(* identifier resolution of the plugin (getClientIdentifier) and its       *)
(* onPreAuth handler, alone and with several handlers in flight; and of    *)
(* the rati route versioning plugin (register and its onPreStart hook).    *)
(***************************************************************************)
EXTENDS Integers, Sequences, FiniteSets, TLC

\* ------------------------------------------------------------------------
\* Bounds of the model
\* ------------------------------------------------------------------------
\* points + maxSize of a configuration is at most MaxLoad
MaxLoad == 3
\* the clock runs ExtraTicks seconds past the longer of window and block
ExtraTicks == 0

\* identifiers the coordinator hands to the store
IdList == <<"ip:a", "ip:b", "ip:c">>

Ids == {IdList[i] : i \in 1..Len(IdList)}

\* <<durationSec, blockDurationSec>>: no block, block shorter than, equal to
\* and longer than the window
LimitShapes == {<<1, 0>>, <<2, 1>>, <<1, 1>>, <<1, 2>>}

\* ------------------------------------------------------------------------
\* Values of the source
\* ------------------------------------------------------------------------
MsPerSec == 1000
\* `undefined` of an optional number (blockedUntil?: number)
Undefined == -1
\* oldestTime: number = Infinity
Infinity == -2
\* oldestKey: string | null = null
Null == "null"

\* JavaScript truthiness of an optional number: undefined and 0 are falsy
Truthy(x) == x # Undefined /\ x # 0

\* a < b where b may be Infinity (a is always finite)
LessThan(a, b) == b = Infinity \/ a < b

VARIABLES
  storage,      \* Map<string, RateLimitEntry> in insertion order
  oldestKey,    \* eviction hint: key
  oldestTime,   \* eviction hint: resetTime recorded for the key
  cleanupTimer, \* TRUE while the setInterval timer is armed
  now,          \* Date.now()
  cfg,          \* merged options: points, duration, blockDuration, maxSize
  last,         \* the operation that produced this state, with its result
  run,          \* consecutive consumes of one identifier inside one window
  req,          \* resolver: the request under resolution
  options,      \* resolver: mergedOptions.ip and mergedOptions.key
  resolved,     \* resolver: outcome of getClientIdentifier
  response,     \* onPreAuth: what the handler returned for the request
  server        \* rati: the hapi server the versioning plugin is registered on

storeVars == <<storage, oldestKey, oldestTime, cleanupTimer, now, cfg, last, run>>
resolverVars == <<req, options, resolved, response>>
ratiVars == <<server>>
vars == <<storage, oldestKey, oldestTime, cleanupTimer, now, cfg, last, run,
          req, options, resolved, response, server>>

\* ------------------------------------------------------------------------
\* The Map
\* ------------------------------------------------------------------------
Keys(s) == {s[i].key : i \in 1..Len(s)}

Has(s, key) == key \in Keys(s)

IndexOf(s, key) == CHOOSE i \in 1..Len(s) : s[i].key = key

Get(s, key) == s[IndexOf(s, key)]

\* Map.set: an existing key keeps its position, a new key goes last
MapSet(s, e) ==
  IF Has(s, e.key) THEN [s EXCEPT ![IndexOf(s, e.key)] = e] ELSE Append(s, e)

\* Map.delete
MapDelete(s, key) == SelectSeq(s, LAMBDA e : e.key # key)

\* the store as one value
Store(s, k, t) == [storage |-> s, oldestKey |-> k, oldestTime |-> t]

RECURSIVE ScanOldest(_, _, _, _)
ScanOldest(s, i, bestKey, bestTime) ==
  IF i > Len(s) THEN <<bestKey, bestTime>>
  ELSE IF LessThan(s[i].resetTime, bestTime)
       THEN ScanOldest(s, i + 1, s[i].key, s[i].resetTime)
       ELSE ScanOldest(s, i + 1, bestKey, bestTime)

updateOldestEntry(st) ==
  IF Len(st.storage) = 0 THEN Store(st.storage, Null, Infinity)
  ELSE LET r == ScanOldest(st.storage, 1, Null, Infinity)
       IN Store(st.storage, r[1], r[2])

evictOldest(st) ==
  LET st1 == IF st.oldestKey = Null \/ ~Has(st.storage, st.oldestKey)
             THEN updateOldestEntry(st) ELSE st
  IN IF st1.oldestKey # Null /\ st1.oldestKey # ""
     THEN updateOldestEntry(Store(MapDelete(st1.storage, st1.oldestKey),
                                  st1.oldestKey, st1.oldestTime))
     ELSE st1

\* faulty variant: the window is taken to last one instant longer (< for <=)
IsExpiredStrict(e, t) == e.resetTime < t

\* entry.resetTime <= now: the window of the entry is over
IsExpired(e, t) == e.resetTime <= t

\* the window test at the head of consume
IsFreshWindow(s, key, t) == ~Has(s, key) \/ IsExpired(Get(s, key), t)

\* faulty variant: eviction starts one entry late (> for >=)
NeedsEvictionLate(s, key, maxSize) == Len(s) > maxSize /\ ~Has(s, key)

\* faulty variant: a full store evicts also when the key has an entry
NeedsEvictionAnyKey(s, key, maxSize) == Len(s) >= maxSize

\* this.storage.size >= this.maxSize && !entry
NeedsEviction(s, key, maxSize) == Len(s) >= maxSize /\ ~Has(s, key)

\* faulty variant: the new window forgets to charge the request
newEntryUncharged(key, points, resetTime) ==
  [key |-> key, points |-> points, resetTime |-> resetTime,
   blockedUntil |-> Undefined]

newEntry(key, points, resetTime) ==
  [key |-> key, points |-> points - 1, resetTime |-> resetTime,
   blockedUntil |-> Undefined]

\* first branch of consume: a new window for key
freshWindow(st, key, points, duration, maxSize, t) ==
  LET st1 == IF NeedsEviction(st.storage, key, maxSize) THEN evictOldest(st) ELSE st
      resetTime == t + duration * MsPerSec
      s2 == MapSet(st1.storage, newEntry(key, points, resetTime))
      hint == st1.oldestKey = Null \/ LessThan(resetTime, st1.oldestTime)
  IN [st |-> Store(s2, IF hint THEN key ELSE st1.oldestKey,
                       IF hint THEN resetTime ELSE st1.oldestTime),
      result |-> [success |-> TRUE, remainingPoints |-> points - 1,
                  resetTime |-> resetTime]]

\* faulty variant: the block counts only once it is over (< for >)
IsBlockedOnceOver(e, t) == Truthy(e.blockedUntil) /\ e.blockedUntil < t

\* entry.blockedUntil && entry.blockedUntil > now
IsBlocked(e, t) == Truthy(e.blockedUntil) /\ e.blockedUntil > t

\* faulty variant: one request too many is let through (< for <=)
IsExhaustedLate(e) == e.points < 0

\* entry.points <= 0
IsExhausted(e) == e.points <= 0

\* faulty variant: a block is set even when blockDuration is 0 (>= for >)
ShouldBlockAlways(blockDuration) == blockDuration >= 0

\* blockDuration > 0
ShouldBlock(blockDuration) == blockDuration > 0

\* the rest of consume: the entry is live
liveWindow(st, key, blockDuration, t) ==
  LET entry == Get(st.storage, key)
  IN IF IsBlocked(entry, t)
     THEN [st |-> st,
           result |-> [success |-> FALSE, remainingPoints |-> 0,
                       resetTime |-> entry.blockedUntil]]
     ELSE
       LET e1 == IF Truthy(entry.blockedUntil) /\ entry.blockedUntil <= t
                 THEN [entry EXCEPT !.blockedUntil = Undefined] ELSE entry
       IN IF IsExhausted(e1)
          THEN IF ShouldBlock(blockDuration)
               THEN LET e2 == [e1 EXCEPT !.blockedUntil = t + blockDuration * MsPerSec]
                    IN [st |-> [st EXCEPT !.storage = MapSet(st.storage, e2)],
                        result |-> [success |-> FALSE, remainingPoints |-> 0,
                                    resetTime |-> e2.blockedUntil]]
               ELSE [st |-> [st EXCEPT !.storage = MapSet(st.storage, e1)],
                     result |-> [success |-> FALSE, remainingPoints |-> 0,
                                 resetTime |-> e1.resetTime]]
          ELSE LET e3 == [e1 EXCEPT !.points = e1.points - 1]
               IN [st |-> [st EXCEPT !.storage = MapSet(st.storage, e3)],
                   result |-> [success |-> TRUE, remainingPoints |-> e3.points,
                               resetTime |-> e3.resetTime]]

consume(st, key, points, duration, blockDuration, maxSize, t) ==
  IF IsFreshWindow(st.storage, key, t)
  THEN freshWindow(st, key, points, duration, maxSize, t)
  ELSE liveWindow(st, key, blockDuration, t)

\* `null`, and the result of an operation that returns nothing
NoResult == [isNull |-> TRUE]

\* faulty variant: an entry whose window ends right now is still reported (< for <=)
getStatusStrict(s, key, t) ==
  IF ~Has(s, key) \/ Get(s, key).resetTime < t THEN NoResult
  ELSE [isNull |-> FALSE, remainingPoints |-> Get(s, key).points,
        resetTime |-> Get(s, key).resetTime, isBlocked |-> IsBlocked(Get(s, key), t)]

getStatus(s, key, t) ==
  IF ~Has(s, key) \/ Get(s, key).resetTime <= t THEN NoResult
  ELSE LET entry == Get(s, key)
           isBlocked == IF Truthy(entry.blockedUntil) THEN entry.blockedUntil > t ELSE FALSE
       IN [isNull |-> FALSE,
           remainingPoints |-> entry.points,
           resetTime |-> IF isBlocked /\ Truthy(entry.blockedUntil)
                         THEN entry.blockedUntil ELSE entry.resetTime,
           isBlocked |-> isBlocked]

\* faulty variant: delete removes nothing
deleteKeyNothing(s, key) == s

\* MemoryStorage.delete
deleteKey(s, key) == MapDelete(s, key)

\* MemoryStorage.reset: storage.clear()
reset(s) == <<>>

\* faulty variant: a block that is still running does not keep the entry
IsSweptWindowOnly(e, t) == e.resetTime <= t

\* the entries cleanup removes at time t
IsSwept(e, t) == e.resetTime <= t /\ (~Truthy(e.blockedUntil) \/ e.blockedUntil <= t)

cleanup(st, t) ==
  updateOldestEntry([st EXCEPT !.storage = SelectSeq(st.storage, LAMBDA e : ~IsSwept(e, t))])

\* ------------------------------------------------------------------------
\* Store: state machine
\* ------------------------------------------------------------------------
ClockStep == MsPerSec

\* maxSize stays below the number of identifiers, so that the store can
\* always be overflowed
Configs ==
  {[points |-> p, duration |-> w[1], blockDuration |-> w[2], maxSize |-> m] :
     <<p, m, w>> \in {x \in (1..MaxLoad) \X (1..(Len(IdList) - 1)) \X LimitShapes :
                        x[1] + x[2] <= MaxLoad}}

\* the clients that send requests: one more than the store can hold
Clients == {IdList[i] : i \in 1..(cfg.maxSize + 1)}

\* seconds the clock runs for: until window and block have both elapsed
Horizon ==
  (IF cfg.duration > cfg.blockDuration THEN cfg.duration ELSE cfg.blockDuration)
    + ExtraTicks

NoEntry == [key |-> Null, points |-> 0, resetTime |-> Undefined, blockedUntil |-> Undefined]

NoRun == [id |-> Null, first |-> 0, n |-> 0]

PreEntry(s, key) == IF Has(s, key) THEN Get(s, key) ELSE NoEntry

\* the entry of k is live and exhausted or blocked at time t
IsSpent(s, k, t) ==
  /\ Has(s, k)
  /\ ~IsExpired(Get(s, k), t)
  /\ (Get(s, k).points = 0 \/ IsBlocked(Get(s, k), t))

Min(a, b) == IF a < b THEN a ELSE b

\* History of one operation: what it was called with, what it returned and
\* what it did to the store `before` to give the store `after`:
\*   pre        consume / getStatus: the entry of key before the operation
\*              (NoEntry if none)
\*   removed    keys that lost their entry (not recorded for reset and
\*              destroy, which leave the map empty)
\*   added      keys that got an entry
\*   changed    keys whose entry was kept with other contents
\*   hintKept   the eviction hint is as before
\*   spent      for delete / reset: removed entries that were live and
\*              exhausted or blocked
\*   afterClear for consume: key is in the `spent` of the operation before
Done(op, key, result, before, after, t, prev) ==
  [op |-> op, key |-> key, result |-> result,
   pre |-> IF op \in {"consume", "getStatus"}
           THEN PreEntry(before.storage, key) ELSE NoEntry,
   removed |-> IF op \in {"reset", "destroy"} THEN {}
               ELSE Keys(before.storage) \ Keys(after.storage),
   added |-> Keys(after.storage) \ Keys(before.storage),
   changed |-> {j \in Keys(before.storage) \cap Keys(after.storage) :
                  Get(before.storage, j) # Get(after.storage, j)},
   hintKept |-> before.oldestKey = after.oldestKey
                /\ before.oldestTime = after.oldestTime,
   spent |-> IF op \in {"delete", "reset"}
             THEN {j \in Keys(before.storage) \ Keys(after.storage) :
                     IsSpent(before.storage, j, t)}
             ELSE {},
   afterClear |-> op = "consume" /\ key \in prev.spent]

Here == Store(storage, oldestKey, oldestTime)

Idle == Done("init", Null, NoResult, Store(<<>>, Null, Infinity),
             Store(<<>>, Null, Infinity), 0, [spent |-> {}])

StoreInit ==
  /\ storage = <<>>
  /\ oldestKey = Null
  /\ oldestTime = Infinity
  /\ cleanupTimer = TRUE
  /\ now = 0
  /\ last = Idle
  /\ run = NoRun

\* onPreAuth reaching storage.consume(identifier, points, duration, blockDuration, now)
Consume(k) ==
  LET r == consume(Here, k, cfg.points, cfg.duration, cfg.blockDuration,
                   cfg.maxSize, now)
  IN /\ storage' = r.st.storage
     /\ oldestKey' = r.st.oldestKey
     /\ oldestTime' = r.st.oldestTime
     /\ last' = Done("consume", k, r.result, Here, r.st, now, last)
     /\ UNCHANGED <<cleanupTimer, now, cfg>>

\* the plugin's exposed getStatus(identifier)
GetStatus(k) ==
  /\ last' = Done("getStatus", k, getStatus(storage, k, now), Here, Here, now, last)
  /\ UNCHANGED <<storage, oldestKey, oldestTime, cleanupTimer, now, cfg>>

Delete(k) ==
  /\ storage' = deleteKey(storage, k)
  /\ last' = Done("delete", k, NoResult, Here,
                  Store(deleteKey(storage, k), oldestKey, oldestTime), now, last)
  /\ UNCHANGED <<oldestKey, oldestTime, cleanupTimer, now, cfg>>

Reset ==
  /\ storage' = reset(storage)
  /\ last' = Done("reset", Null, NoResult, Here,
                  Store(reset(storage), oldestKey, oldestTime), now, last)
  /\ UNCHANGED <<oldestKey, oldestTime, cleanupTimer, now, cfg>>

\* a tick of the setInterval timer
Cleanup ==
  /\ cleanupTimer
  /\ LET st == cleanup(Here, now)
     IN /\ storage' = st.storage
        /\ oldestKey' = st.oldestKey
        /\ oldestTime' = st.oldestTime
        /\ last' = Done("cleanup", Null, NoResult, Here, st, now, last)
  /\ UNCHANGED <<cleanupTimer, now, cfg>>

\* faulty variant: destroy() clears the entries and leaves the timer armed
DestroyKeepsTimer ==
  /\ storage' = reset(storage)
  /\ last' = Done("destroy", Null, NoResult, Here,
                  Store(reset(storage), oldestKey, oldestTime), now, last)
  /\ UNCHANGED <<oldestKey, oldestTime, cleanupTimer, now, cfg>>

\* destroy(): clearInterval(cleanupTimer), storage.clear()
Destroy ==
  /\ cleanupTimer' = FALSE
  /\ storage' = reset(storage)
  /\ last' = Done("destroy", Null, NoResult, Here,
                  Store(reset(storage), oldestKey, oldestTime), now, last)
  /\ UNCHANGED <<oldestKey, oldestTime, now, cfg>>

\* time passes
Tick ==
  /\ now + ClockStep <= Horizon * ClockStep
  /\ now' = now + ClockStep
  /\ last' = Done("tick", Null, NoResult, Here, Here, now, last)
  /\ UNCHANGED <<storage, oldestKey, oldestTime, cleanupTimer, cfg>>

\* ------------------------------------------------------------------------
\* Resolver (idle in the store specifications)
\* ------------------------------------------------------------------------
NoRequest == [op |-> "none"]

NoOutcome == [kind |-> "idle"]

NoResponse == [decision |-> "none"]

\* no server of the versioning plugin
NoServer == [phase |-> "none"]

\* defaultOptions: ip: true, key: false
ResolverIdle ==
  /\ req = NoRequest
  /\ options = [ip |-> [mode |-> "true"], key |-> [mode |-> "false"]]
  /\ resolved = NoOutcome
  /\ response = NoResponse
  /\ server = NoServer

Init ==
  /\ StoreInit
  /\ cfg \in Configs
  /\ ResolverIdle

\* the store alone, no history beyond `last`
Next ==
  \/ \E k \in Clients : Consume(k) /\ UNCHANGED <<run, req, options, resolved, response, server>>
  \/ \E k \in Clients : GetStatus(k) /\ UNCHANGED <<run, req, options, resolved, response, server>>
  \/ \E k \in Clients : Delete(k) /\ UNCHANGED <<run, req, options, resolved, response, server>>
  \/ Reset /\ UNCHANGED <<run, req, options, resolved, response, server>>
  \/ Cleanup /\ UNCHANGED <<run, req, options, resolved, response, server>>
  \/ Destroy /\ UNCHANGED <<run, req, options, resolved, response, server>>
  \/ Tick /\ UNCHANGED <<run, req, options, resolved, response, server>>

Spec == Init /\ [][Next]_vars

\* ------------------------------------------------------------------------
\* History: consecutive consumes of one identifier inside one window
\* ------------------------------------------------------------------------
\* run.id is the identifier, run.first the time of the consume that opened the
\* window, run.n the number of consumes since (counted up to points + 1)
RunOnConsume(k) ==
  run' = IF run.id = k /\ now < run.first + cfg.duration * MsPerSec
         THEN [run EXCEPT !.n = Min(run.n + 1, cfg.points + 1)]
         ELSE IF IsFreshWindow(storage, k, now)
              THEN [id |-> k, first |-> now, n |-> 1]
              ELSE NoRun

NextRun ==
  \/ \E k \in Clients : Consume(k) /\ RunOnConsume(k)
                    /\ UNCHANGED <<req, options, resolved, response, server>>
  \/ \E k \in Clients : GetStatus(k) /\ UNCHANGED <<run, req, options, resolved, response, server>>
  \/ \E k \in Clients : Delete(k) /\ run' = NoRun
                    /\ UNCHANGED <<req, options, resolved, response, server>>
  \/ Reset /\ run' = NoRun /\ UNCHANGED <<req, options, resolved, response, server>>
  \/ Cleanup /\ UNCHANGED <<run, req, options, resolved, response, server>>
  \/ Destroy /\ run' = NoRun /\ UNCHANGED <<req, options, resolved, response, server>>
  \/ Tick /\ UNCHANGED <<run, req, options, resolved, response, server>>

SpecRun == Init /\ [][NextRun]_vars

\* ------------------------------------------------------------------------
\* Claims about the store
\* ------------------------------------------------------------------------
\* In every state `last` describes the operation that led to it, and `now`
\* is the time that operation ran at (Consume leaves the clock alone).
WindowEnd(t) == t + cfg.duration * MsPerSec

IsFreshResult(r, t) ==
  r.success /\ r.remainingPoints = cfg.points - 1 /\ r.resetTime = WindowEnd(t)

\* the entry of last.key is the one a fresh window stores
StoredFresh ==
  /\ Has(storage, last.key)
  /\ Get(storage, last.key) = [key |-> last.key, points |-> cfg.points - 1,
                               resetTime |-> WindowEnd(now),
                               blockedUntil |-> Undefined]

\* C1: from an identifier with no live entry, the n-th consecutive consume
\* inside the window succeeds with remainingPoints = points - n and the
\* window's resetTime for n = 1..points, and the (points+1)-th is denied
C1_WindowBudget ==
  (last.op = "consume" /\ run.id = last.key) =>
    /\ run.n <= cfg.points =>
         /\ last.result.success
         /\ last.result.remainingPoints = cfg.points - run.n
         /\ last.result.resetTime = WindowEnd(run.first)
    /\ run.n > cfg.points => ~last.result.success

\* the (points+1)-th consume of a window of two points was denied
C1_Witness ==
  /\ cfg.points >= 2
  /\ run.id # Null
  /\ run.n = cfg.points + 1
  /\ last.op = "consume"
  /\ last.key = run.id
  /\ ~last.result.success

\* C2 (as claimed): a consume for an entry whose blockedUntil lies in the
\* future is denied, also when the entry's window has already expired
C2_BlockPersists ==
  (/\ last.op = "consume"
   /\ last.pre.key # Null
   /\ Truthy(last.pre.blockedUntil)
   /\ now < last.pre.blockedUntil)
  => ~last.result.success

\* C3 (as claimed): the first consume at now >= blockedUntil starts a fresh
\* window, whatever blockDuration and duration are
C3_FreshAtBlockEnd ==
  (/\ last.op = "consume"
   /\ last.pre.key # Null
   /\ Truthy(last.pre.blockedUntil)
   /\ now >= last.pre.blockedUntil)
  => IsFreshResult(last.result, now)

\* C3 (amended): a consume at now >= blockedUntil starts a fresh window when
\* the entry's window has expired as well (now >= resetTime)
C3_FreshAfterBlockAndWindow ==
  (/\ last.op = "consume"
   /\ last.pre.key # Null
   /\ Truthy(last.pre.blockedUntil)
   /\ now >= last.pre.blockedUntil
   /\ now >= last.pre.resetTime)
  => IsFreshResult(last.result, now) /\ StoredFresh

\* a block shorter than the window has lapsed, the window too, and the
\* consume opened a new window
C3_Witness ==
  /\ cfg.blockDuration > 0
  /\ cfg.blockDuration < cfg.duration
  /\ last.op = "consume"
  /\ last.pre.key # Null
  /\ Truthy(last.pre.blockedUntil)
  /\ last.pre.blockedUntil <= now
  /\ last.pre.resetTime <= now
  /\ IsFreshResult(last.result, now)

\* C4 (as claimed): a consume for a new identifier in a full store removes
\* exactly one entry, one whose resetTime is minimal among the stored entries
C4_EvictsEarliest ==
  [][\A k \in Ids :
       (Consume(k) /\ ~Has(storage, k) /\ Len(storage) = cfg.maxSize) =>
         \E v \in Keys(storage) :
           /\ Keys(storage') = (Keys(storage) \ {v}) \cup {k}
           /\ \A u \in Keys(storage) :
                Get(storage, v).resetTime <= Get(storage, u).resetTime]_vars

\* C5: after any sequence of consume, getStatus, delete, reset, sweep and
\* destroy the number of stored entries never exceeds maxSize
C5_SizeBound == Len(storage) <= cfg.maxSize

\* a consume evicted an entry and the store is exactly full
C5_Witness ==
  /\ last.op = "consume"
  /\ last.removed # {}
  /\ last.added = {last.key}
  /\ Len(storage) = cfg.maxSize

\* C6: a consume at now >= resetTime on an entry with no active block
\* replaces the entry by a fresh one and succeeds with points - 1, whatever
\* the entry's points were
C6_FreshAfterWindow ==
  (/\ last.op = "consume"
   /\ last.pre.key # Null
   /\ ~(Truthy(last.pre.blockedUntil) /\ last.pre.blockedUntil > now)
   /\ now >= last.pre.resetTime)
  => IsFreshResult(last.result, now) /\ StoredFresh

\* an exhausted entry of a two-point budget was replaced after its window
C6_Witness ==
  /\ cfg.points >= 2
  /\ last.op = "consume"
  /\ last.pre.key # Null
  /\ last.pre.points = 0
  /\ ~Truthy(last.pre.blockedUntil)
  /\ last.pre.resetTime <= now
  /\ IsFreshResult(last.result, now)
  /\ StoredFresh

\* C7: with blockDuration = 0 a consume on an exhausted entry is denied
\* before resetTime, with the unchanged resetTime and no blockedUntil set,
\* and succeeds from resetTime on
C7_DenialEndsWithWindow ==
  (/\ last.op = "consume"
   /\ cfg.blockDuration = 0
   /\ last.pre.key # Null
   /\ last.pre.points <= 0)
  => IF now < last.pre.resetTime
     THEN /\ ~last.result.success
          /\ last.result.resetTime = last.pre.resetTime
          /\ Has(storage, last.key)
          /\ Get(storage, last.key).resetTime = last.pre.resetTime
          /\ Get(storage, last.key).blockedUntil = Undefined
     ELSE last.result.success

\* without a block, a consume on an exhausted entry was denied inside the
\* window
C7_WitnessDenied ==
  /\ cfg.blockDuration = 0
  /\ last.op = "consume"
  /\ last.pre.key # Null
  /\ last.pre.points = 0
  /\ now < last.pre.resetTime
  /\ ~last.result.success

\* without a block, the consume at exactly resetTime of an exhausted entry
\* succeeded
C7_Witness ==
  /\ cfg.blockDuration = 0
  /\ last.op = "consume"
  /\ last.pre.key # Null
  /\ last.pre.points = 0
  /\ last.pre.resetTime = now
  /\ last.result.success

\* C8: getStatus returns none for an absent or expired identifier and leaves
\* the entries and the eviction hint unchanged
C8_GetStatusPure ==
  last.op = "getStatus" =>
    /\ last.removed = {} /\ last.added = {} /\ last.changed = {}
    /\ last.hintKept
    /\ (last.pre.key = Null \/ last.pre.resetTime <= now)
         => last.result = NoResult

\* getStatus answered none for a stored entry whose window ends right now
C8_Witness ==
  /\ last.op = "getStatus"
  /\ Has(storage, last.key)
  /\ Get(storage, last.key).resetTime = now
  /\ last.result = NoResult

\* C9: delete(id) removes the entry of id and leaves every other entry as
\* it was, reset() removes every entry, only a consume gives its identifier
\* an entry, and a consume for an identifier without an entry opens a fresh
\* window with remainingPoints = points - 1
C9_FreshAfterClear ==
  /\ last.op = "delete" =>
       /\ ~Has(storage, last.key)
       /\ last.removed \subseteq {last.key}
       /\ last.changed = {}
  /\ last.op = "reset" => storage = <<>>
  /\ last.added \subseteq (IF last.op = "consume" THEN {last.key} ELSE {})
  /\ (last.op = "consume" /\ last.pre.key = Null) =>
       IsFreshResult(last.result, now) /\ StoredFresh

\* a live exhausted or blocked entry was removed by delete or reset and the
\* consume that followed succeeded with a fresh window
C9_Witness ==
  /\ last.op = "consume"
  /\ last.afterClear
  /\ last.pre.key = Null
  /\ IsFreshResult(last.result, now)

\* ------------------------------------------------------------------------
\* Identifier resolution
\* ------------------------------------------------------------------------
\* the forwarded chain holds at most MaxHops entries
MaxHops == 2

API_KEY_MAX_LENGTH == 512

\* addresses: a client and two proxies
ClientIp == "1.2.3.4"
ProxyIp == "10.0.0.1"
OtherProxyIp == "10.0.0.2"

\* isIPv4(ip) || isIPv6(ip), over the strings of the model
isValidIp(ip) == ip \in {ClientIp, ProxyIp, OtherProxyIp}

\* String.trim on one entry of the header: "1.2.3.4, 10.0.0.1" splits into
\* "1.2.3.4" and " 10.0.0.1"
TrimEntry(x) ==
  IF x = " 10.0.0.1" THEN ProxyIp
  ELSE IF x = " 10.0.0.2" THEN OtherProxyIp
  ELSE x

\* entries of an x-forwarded-for header as split(',') returns them
HeaderEntries == {ClientIp, " 10.0.0.1", " 10.0.0.2", "unknown"}

\* x-forwarded-for: <<>> is the absent (or empty) header
ForwardedHeaders == UNION {[1..n -> HeaderEntries] : n \in 0..MaxHops}

\* forwardedFor.split(',').map(trim).filter(isValidIp)
extractForwardedIps(forwardedFor) ==
  SelectSeq([i \in 1..Len(forwardedFor) |-> TrimEntry(forwardedFor[i])], isValidIp)

\* faulty variant: every peer is taken for a trusted proxy
shouldTrustProxyAnyone(remoteAddress, ipOptions) == TRUE

shouldTrustProxy(remoteAddress, ipOptions) ==
  /\ ipOptions.allowXForwardedForFrom # {}
  /\ remoteAddress \in ipOptions.allowXForwardedForFrom

RECURSIVE ChainWalk(_, _, _)
ChainWalk(ips, trustedProxies, i) ==
  IF i < 1 THEN ips[1]
  ELSE IF ips[i] \notin trustedProxies THEN ips[i]
  ELSE ChainWalk(ips, trustedProxies, i - 1)

\* faulty variant: the leftmost entry is taken whatever the proxies are
findClientIpFromChainLeftmost(ips, trustedProxies) == ips[1]

findClientIpFromChain(ips, trustedProxies) == ChainWalk(ips, trustedProxies, Len(ips))

getClientIp(request, ipOptions) ==
  IF ~ipOptions.allowXForwardedFor THEN request.remoteAddress
  ELSE IF request.forwardedFor = <<>> THEN request.remoteAddress
  ELSE LET ips == extractForwardedIps(request.forwardedFor)
       IN IF Len(ips) = 0 THEN request.remoteAddress
          ELSE IF ~shouldTrustProxy(request.remoteAddress, ipOptions)
               THEN request.remoteAddress
               ELSE findClientIpFromChain(ips, ipOptions.allowXForwardedForFrom)

\* faulty variant: the block list is looked at first
checkListsBlockFirst(value, allowList, blockList) ==
  IF blockList # {} /\ value \in blockList THEN "block"
  ELSE IF allowList # {} /\ value \in allowList THEN "allow"
  ELSE "continue"

checkLists(value, allowList, blockList) ==
  IF allowList # {} /\ value \in allowList THEN "allow"
  ELSE IF blockList # {} /\ value \in blockList THEN "block"
  ELSE "continue"

\* typeof mergedOptions.ip === 'object' ? mergedOptions.ip : {}
IpOptionsOf(opts) ==
  IF opts.ip.mode = "object" THEN opts.ip
  ELSE [mode |-> opts.ip.mode, allowList |-> {}, blockList |-> {},
        allowXForwardedFor |-> FALSE, allowXForwardedForFrom |-> {}]

\* typeof mergedOptions.key === 'object' ? mergedOptions.key : {}
KeyOptionsOf(opts) ==
  IF opts.key.mode = "object" THEN opts.key
  ELSE [mode |-> opts.key.mode, allowList |-> {}, blockList |-> {},
        fallbackToIpOnMissingKey |-> TRUE]

\* outcomes of getClientIdentifier: an identifier, null (bypass), undefined
\* (no identifier) or a thrown BlockedIpError / BlockedApiKeyError
Identifier(tag, value) == [kind |-> "identifier", tag |-> tag, value |-> value]
Bypass == [kind |-> "null"]
NoIdentifier == [kind |-> "undefined"]
BlockedIpError(ip) == [kind |-> "BlockedIpError", value |-> ip]
BlockedApiKeyError == [kind |-> "BlockedApiKeyError"]

checkIpIdentifier(request, opts) ==
  LET ipOptions == IpOptionsOf(opts)
      clientIp == getClientIp(request, ipOptions)
      result == checkLists(clientIp, ipOptions.allowList, ipOptions.blockList)
  IN IF result = "allow" THEN Bypass
     ELSE IF result = "block" THEN BlockedIpError(clientIp)
     ELSE Identifier("ip", clientIp)

\* keys are sequences of characters
IsKeyChar(c) == c \in {"a", "b", ".", "_", "-"}

IsSpace(c) == c = " "

RECURSIVE TrimStart(_)
TrimStart(k) ==
  IF k # <<>> /\ IsSpace(Head(k)) THEN TrimStart(Tail(k)) ELSE k

RECURSIVE TrimEnd(_)
TrimEnd(k) ==
  IF k # <<>> /\ IsSpace(k[Len(k)]) THEN TrimEnd(SubSeq(k, 1, Len(k) - 1)) ELSE k

Trim(k) == TrimEnd(TrimStart(k))

\* faulty variant: a key that is too long is cut to API_KEY_MAX_LENGTH
sanitizeApiKeyTruncating(key) ==
  IF key = <<>> THEN [ok |-> FALSE]
  ELSE LET trimmed == SubSeq(Trim(key), 1, Min(Len(Trim(key)), API_KEY_MAX_LENGTH))
       IN IF Len(trimmed) = 0 THEN [ok |-> FALSE]
          ELSE IF \E i \in 1..Len(trimmed) : ~IsKeyChar(trimmed[i])
               THEN [ok |-> FALSE]
               ELSE [ok |-> TRUE, key |-> trimmed]

\* the result null is [ok |-> FALSE]
sanitizeApiKey(key) ==
  IF key = <<>> THEN [ok |-> FALSE]
  ELSE LET trimmed == Trim(key)
       IN IF Len(trimmed) = 0 \/ Len(trimmed) > API_KEY_MAX_LENGTH
          THEN [ok |-> FALSE]
          ELSE IF \E i \in 1..Len(trimmed) : ~IsKeyChar(trimmed[i])
               THEN [ok |-> FALSE]
               ELSE [ok |-> TRUE, key |-> trimmed]

checkKeyIdentifier(request, opts) ==
  LET keyOptions == KeyOptionsOf(opts)
      apiKey == IF request.keyHeader = <<>> /\ request.keyQuery # <<>>
                THEN request.keyQuery ELSE request.keyHeader
  IN IF apiKey = <<>> THEN NoIdentifier
     ELSE LET sanitizedKey == sanitizeApiKey(apiKey)
          IN IF ~sanitizedKey.ok
             THEN IF Len(Trim(apiKey)) = 0 THEN NoIdentifier ELSE BlockedApiKeyError
             ELSE LET result == checkLists(sanitizedKey.key, keyOptions.allowList,
                                           keyOptions.blockList)
                  IN IF result = "allow" THEN Bypass
                     ELSE IF result = "block" THEN BlockedApiKeyError
                     ELSE Identifier("key", sanitizedKey.key)

\* faulty variant: an enabled key mode is consulted before the ip mode
getClientIdentifierKeyFirst(request, opts) ==
  LET keyId == IF opts.key.mode # "false"
               THEN checkKeyIdentifier(request, opts) ELSE NoIdentifier
  IN IF keyId.kind # "undefined" THEN keyId
     ELSE IF opts.ip.mode # "false" THEN checkIpIdentifier(request, opts)
     ELSE NoIdentifier

getClientIdentifier(request, opts) ==
  IF opts.ip.mode # "false" THEN checkIpIdentifier(request, opts)
  ELSE LET keyId == IF opts.key.mode # "false"
                    THEN checkKeyIdentifier(request, opts) ELSE NoIdentifier
       IN IF keyId.kind # "undefined" THEN keyId
          ELSE IF opts.ip.mode # "false" /\ KeyOptionsOf(opts).fallbackToIpOnMissingKey
               THEN Identifier("ip", request.remoteAddress)
               ELSE NoIdentifier

\* ------------------------------------------------------------------------
\* Resolver: state machine
\* ------------------------------------------------------------------------
LongKey(n) == [i \in 1..n |-> "a"]

KeyStrings ==
  {<<>>, <<" ">>, <<"a">>, <<" ", "a", " ">>, <<"a", " ", "b">>,
   LongKey(API_KEY_MAX_LENGTH), LongKey(API_KEY_MAX_LENGTH + 1),
   <<" ">> \o LongKey(API_KEY_MAX_LENGTH)}

Requests ==
  [op : {"request"}, remoteAddress : {ClientIp, ProxyIp},
   forwardedFor : ForwardedHeaders, keyHeader : KeyStrings,
   keyQuery : {<<>>, <<"b">>}]

IpModes ==
  {[mode |-> "true"], [mode |-> "false"]} \cup
  [mode : {"object"},
   allowList : {{}, {ClientIp}},
   blockList : {{}, {ClientIp}, {ProxyIp}},
   allowXForwardedFor : BOOLEAN,
   allowXForwardedForFrom : {{}, {ProxyIp}, {ProxyIp, OtherProxyIp}}]

KeyModes ==
  {[mode |-> "true"], [mode |-> "false"]} \cup
  [mode : {"object"},
   allowList : {{}, {<<"a">>}},
   blockList : {{}, {<<"a">>}},
   fallbackToIpOnMissingKey : BOOLEAN]

\* with ip enabled the key options are kept to true / false, with ip
\* disabled every key mode is drawn
OptionSets ==
  {o \in [ip : IpModes, key : KeyModes] :
     o.ip.mode = "false" \/ o.key.mode # "object"}

ResolverInit ==
  /\ req = NoRequest
  /\ options \in OptionSets
  /\ resolved = NoOutcome
  /\ response = NoResponse
  /\ server = NoServer

StoreIdle ==
  /\ StoreInit
  /\ cfg = [points |-> 1, duration |-> 1, blockDuration |-> 0, maxSize |-> 1]

\* onPreAuth: a request arrives and getClientIdentifier runs
Resolve(r) ==
  /\ req = NoRequest
  /\ req' = r
  /\ resolved' = getClientIdentifier(r, options)
  /\ UNCHANGED <<options, response, server>>

\* the request is answered
Respond ==
  /\ req # NoRequest
  /\ req' = NoRequest
  /\ resolved' = NoOutcome
  /\ UNCHANGED <<options, response, server>>

InitResolver == StoreIdle /\ ResolverInit

NextResolver ==
  \/ \E r \in Requests : Resolve(r) /\ UNCHANGED storeVars
  \/ Respond /\ UNCHANGED storeVars

SpecResolver == InitResolver /\ [][NextResolver]_vars

\* ------------------------------------------------------------------------
\* Claims about identifier resolution
\* ------------------------------------------------------------------------
\* the header is honoured: allowXForwardedFor is set and the peer is listed
HeaderTrusted ==
  /\ options.ip.mode = "object"
  /\ options.ip.allowXForwardedFor
  /\ req.remoteAddress \in options.ip.allowXForwardedForFrom

\* C10: unless allowXForwardedFor is true and the remote address is listed in
\* allowXForwardedForFrom, the x-forwarded-for header has no influence: any
\* other header value resolves to the same outcome, and an ip identifier is
\* that of the remote address
C10_ForwardedHeaderIgnored ==
  (req # NoRequest /\ ~HeaderTrusted) =>
    /\ \A h \in ForwardedHeaders :
         getClientIdentifier([req EXCEPT !.forwardedFor = h], options) = resolved
    /\ (resolved.kind = "identifier" /\ resolved.tag = "ip")
         => resolved.value = req.remoteAddress

\* allowXForwardedFor = false, peer 10.0.0.1 listed as proxy, header
\* "1.2.3.4, 10.0.0.1": the request resolves to ip:10.0.0.1
C10_Witness ==
  /\ req # NoRequest
  /\ options.ip.mode = "object"
  /\ ~options.ip.allowXForwardedFor
  /\ ProxyIp \in options.ip.allowXForwardedForFrom
  /\ req.remoteAddress = ProxyIp
  /\ req.forwardedFor = <<ClientIp, " 10.0.0.1">>
  /\ resolved = Identifier("ip", ProxyIp)

\* positions of the request's header holding a valid address
ValidHops ==
  {i \in 1..Len(req.forwardedFor) : isValidIp(TrimEntry(req.forwardedFor[i]))}

\* valid positions whose address is not a trusted proxy
UntrustedHops ==
  {i \in ValidHops :
     TrimEntry(req.forwardedFor[i]) \notin options.ip.allowXForwardedForFrom}

MaxOf(S) == CHOOSE i \in S : \A j \in S : j <= i

MinOf(S) == CHOOSE i \in S : \A j \in S : i <= j

\* the address the chain rule names: rightmost valid untrusted entry, else
\* the leftmost valid entry
ChainChoice ==
  IF UntrustedHops # {}
  THEN TrimEntry(req.forwardedFor[MaxOf(UntrustedHops)])
  ELSE TrimEntry(req.forwardedFor[MinOf(ValidHops)])

\* the outcome of the list check for one address
IpOutcomes(ip) ==
  IF ip \in IpOptionsOf(options).allowList THEN {Bypass}
  ELSE IF ip \in IpOptionsOf(options).blockList THEN {BlockedIpError(ip)}
  ELSE {Identifier("ip", ip)}

\* C11: when the forwarded header is trusted and holds a valid entry, the
\* resolved IP is the rightmost valid entry that is not a trusted proxy, or
\* the leftmost valid entry when all valid entries are trusted; an entry that
\* is no valid address is never the resolved IP
C11_ChainChoice ==
  (req # NoRequest /\ HeaderTrusted) =>
    /\ ValidHops # {} => resolved \in IpOutcomes(ChainChoice)
    /\ resolved.kind \in {"identifier", "BlockedIpError"} => isValidIp(resolved.value)

\* remote 10.0.0.1 trusted, header "1.2.3.4, 10.0.0.1": resolved 1.2.3.4
C11_Witness ==
  /\ req # NoRequest
  /\ HeaderTrusted
  /\ req.remoteAddress = ProxyIp
  /\ req.forwardedFor = <<ClientIp, " 10.0.0.1">>
  /\ resolved = Identifier("ip", ClientIp)

\* every valid entry trusted: the leftmost one is resolved
C11_WitnessAllTrusted ==
  /\ req # NoRequest
  /\ HeaderTrusted
  /\ req.forwardedFor = <<" 10.0.0.2", " 10.0.0.1">>
  /\ options.ip.allowXForwardedForFrom = {ProxyIp, OtherProxyIp}
  /\ resolved = Identifier("ip", OtherProxyIp)

\* the key the request supplies: the header, else the query parameter
SuppliedKey ==
  IF req.keyHeader = <<>> /\ req.keyQuery # <<>> THEN req.keyQuery ELSE req.keyHeader

\* ip mode off, key mode on, and the request carries no key (or a blank one)
KeyModeMissingKey ==
  /\ req # NoRequest
  /\ options.ip.mode = "false"
  /\ options.key.mode # "false"
  /\ Trim(SuppliedKey) = <<>>

\* C12 as stated: with ip mode disabled and key mode enabled a request without
\* a key resolves to ip:<remoteAddress> when fallbackToIpOnMissingKey is true
\* and to no identifier only when it is false
C12_FallbackToIp ==
  KeyModeMissingKey =>
    IF KeyOptionsOf(options).fallbackToIpOnMissingKey
    THEN resolved = Identifier("ip", req.remoteAddress)
    ELSE resolved = NoIdentifier

\* C13: whenever ip mode is enabled the outcome depends on the ip alone: any
\* other key header, key query value or key options (mode, allow list, block
\* list, fallback) give the same outcome, and the outcome is never a key
\* identifier nor a blocked key
C13_KeyIgnoredInIpMode ==
  (req # NoRequest /\ options.ip.mode # "false") =>
    /\ \A kh \in KeyStrings, kq \in {<<>>, <<"b">>}, km \in KeyModes :
         getClientIdentifier([req EXCEPT !.keyHeader = kh, !.keyQuery = kq],
                             [options EXCEPT !.key = km]) = resolved
    /\ resolved.kind # "BlockedApiKeyError"
    /\ resolved.kind = "identifier" => resolved.tag = "ip"

\* ip mode and key mode both enabled, a key that key mode would reject
\* ("a b"): the request resolves to the ip identifier
C13_Witness ==
  /\ req # NoRequest
  /\ options.ip.mode # "false"
  /\ options.key.mode = "true"
  /\ req.keyHeader = <<"a", " ", "b">>
  /\ resolved = Identifier("ip", req.remoteAddress)

\* key mode decides: ip mode off, key mode on
KeyModeActive ==
  /\ req # NoRequest
  /\ options.ip.mode = "false"
  /\ options.key.mode # "false"

\* the trimmed key is too long or holds a character outside [A-Za-z0-9._-]
MalformedKey(t) ==
  \/ Len(t) > API_KEY_MAX_LENGTH
  \/ \E i \in 1..Len(t) : ~IsKeyChar(t[i])

\* C14: in key mode a supplied key whose trimmed form is longer than 512
\* characters or holds a character outside [A-Za-z0-9._-] is blocked; it is
\* never cut down (a key identifier is the whole trimmed key), never accepted
\* and never taken for a missing key: only a key trimming to the empty string
\* is missing
C14_MalformedKeyBlocked ==
  KeyModeActive =>
    LET t == Trim(SuppliedKey)
    IN /\ MalformedKey(t) => resolved = BlockedApiKeyError
       /\ resolved = NoIdentifier <=> t = <<>>
       /\ resolved.kind = "identifier" =>
            /\ resolved = Identifier("key", t)
            /\ ~MalformedKey(t)

\* a key of 513 characters is blocked
C14_Witness ==
  /\ KeyModeActive
  /\ req.keyHeader = LongKey(API_KEY_MAX_LENGTH + 1)
  /\ resolved = BlockedApiKeyError

\* a key holding a space inside is blocked
C14_WitnessSpace ==
  /\ KeyModeActive
  /\ req.keyHeader = <<"a", " ", "b">>
  /\ resolved = BlockedApiKeyError

\* a padded key of 512 characters is accepted whole
C14_WitnessPadded ==
  /\ KeyModeActive
  /\ req.keyHeader = <<" ">> \o LongKey(API_KEY_MAX_LENGTH)
  /\ resolved = Identifier("key", LongKey(API_KEY_MAX_LENGTH))

\* the value the list check of the request is made on: the client ip in ip
\* mode, the trimmed key in key mode
ListedIp ==
  /\ req # NoRequest
  /\ options.ip.mode # "false"
  /\ LET ip == getClientIp(req, IpOptionsOf(options))
     IN ip \in IpOptionsOf(options).allowList \cap IpOptionsOf(options).blockList

ListedKey ==
  /\ KeyModeActive
  /\ ~MalformedKey(Trim(SuppliedKey))
  /\ Trim(SuppliedKey) \in
       KeyOptionsOf(options).allowList \cap KeyOptionsOf(options).blockList

\* C15: in ip mode and in key mode a value that is in the allow list and in
\* the block list bypasses rate limiting (null identifier) and is never
\* blocked
C15_AllowListFirst ==
  (ListedIp \/ ListedKey) => resolved = Bypass

\* ip mode: 1.2.3.4 is in both lists and the request comes from 1.2.3.4
C15_Witness ==
  /\ ListedIp
  /\ req.remoteAddress = ClientIp
  /\ ClientIp \in options.ip.blockList
  /\ resolved = Bypass

\* key mode: the key "a" is in both lists
C15_WitnessKey ==
  /\ ListedKey
  /\ req.keyHeader = <<" ", "a", " ">>
  /\ <<"a">> \in options.key.blockList
  /\ resolved = Bypass

\* ------------------------------------------------------------------------
\* Plugin: the onPreAuth handler over the resolver and the store
\* ------------------------------------------------------------------------
\* `ip:${clientIp}` / `key:${sanitizedKey}`: the string the store is keyed by
IdentifierString(id) ==
  IF id.tag = "ip"
  THEN CASE id.value = ClientIp -> "ip:1.2.3.4"
         [] id.value = ProxyIp -> "ip:10.0.0.1"
         [] OTHER -> "ip:10.0.0.2"
  ELSE CASE id.value = <<"a">> -> "key:a"
         [] OTHER -> "key:b"

\* Math.ceil(a / b) and Math.floor(a / b) for b > 0
Ceil(a, b) == -((-a) \div b)

Floor(a, b) == a \div b

Max(a, b) == IF a > b THEN a ELSE b

\* request.plugins.ratli not set
NoMeta == [limit |-> Undefined, remaining |-> Undefined, reset |-> Undefined]

\* faulty variant: a throwing callback is not caught
invokeCallbackUncaught(callback) ==
  [called |-> TRUE, logged |-> FALSE, thrown |-> callback = "throws"]

\* try { callback(identifier, request) } catch (err) { server.log(...) }
\* callback is "returns" or "throws": what the configured function does
invokeCallback(callback) ==
  [called |-> TRUE, logged |-> callback = "throws", thrown |-> FALSE]

NotCalled == [called |-> FALSE, logged |-> FALSE, thrown |-> FALSE]

\* a callback error that escapes the handler: the request fails
Failed(meta, cb) ==
  [decision |-> "error", statusCode |-> 500, retryAfter |-> Undefined,
   meta |-> meta, notified |-> cb.called, logged |-> cb.logged]

handleRateLimitExceeded(opts, meta, result, t) ==
  LET cb == IF opts.onRateLimit # "absent"
            THEN invokeCallback(opts.onRateLimit) ELSE NotCalled
  IN IF cb.thrown THEN Failed(meta, cb)
     ELSE [decision |-> "denied", statusCode |-> 429,
           retryAfter |-> Ceil(result.resetTime - t, MsPerSec),
           meta |-> meta, notified |-> cb.called, logged |-> cb.logged]

handleBlockedClient(opts) ==
  LET cb == IF opts.onBlock # "absent"
            THEN invokeCallback(opts.onBlock) ELSE NotCalled
  IN IF cb.thrown THEN Failed(NoMeta, cb)
     ELSE [decision |-> "forbidden", statusCode |-> 403, retryAfter |-> Undefined,
           meta |-> NoMeta, notified |-> cb.called, logged |-> cb.logged]

Continue(meta) ==
  [decision |-> "continue", statusCode |-> 200, retryAfter |-> Undefined,
   meta |-> meta, notified |-> FALSE, logged |-> FALSE]

\* faulty variant: consume is called whatever the resolver returned
onPreAuthAlwaysConsume(st, request, opts, limits, t) ==
  LET identifier == getClientIdentifier(request, opts)
      key == IF identifier.kind = "identifier"
             THEN IdentifierString(identifier) ELSE "undefined"
      r == consume(st, key, limits.points, limits.duration, limits.blockDuration,
                   limits.maxSize, t)
      meta == [limit |-> limits.points,
               remaining |-> Max(0, r.result.remainingPoints),
               reset |-> r.result.resetTime]
  IN [st |-> r.st, consumed |-> identifier.kind = "identifier",
      identifier |-> identifier, result |-> r.result,
      response |-> IF identifier.kind \in {"BlockedIpError", "BlockedApiKeyError"}
                   THEN handleBlockedClient(opts)
                   ELSE IF ~r.result.success
                        THEN handleRateLimitExceeded(opts, meta, r.result, t)
                        ELSE Continue(meta)]

\* the handler: st is the store, limits the rateLimit options and maxSize
onPreAuth(st, request, opts, limits, t) ==
  LET identifier == getClientIdentifier(request, opts)
  IN IF identifier.kind \in {"null", "undefined"}
     THEN [st |-> st, consumed |-> FALSE, identifier |-> identifier,
           result |-> NoResult, response |-> Continue(NoMeta)]
     ELSE IF identifier.kind \in {"BlockedIpError", "BlockedApiKeyError"}
     THEN [st |-> st, consumed |-> FALSE, identifier |-> identifier,
           result |-> NoResult, response |-> handleBlockedClient(opts)]
     ELSE LET r == consume(st, IdentifierString(identifier), limits.points,
                           limits.duration, limits.blockDuration, limits.maxSize, t)
              meta == [limit |-> limits.points,
                       remaining |-> Max(0, r.result.remainingPoints),
                       reset |-> r.result.resetTime]
          IN [st |-> r.st, consumed |-> TRUE, identifier |-> identifier,
              result |-> r.result,
              response |-> IF ~r.result.success
                           THEN handleRateLimitExceeded(opts, meta, r.result, t)
                           ELSE Continue(meta)]

\* the clock of the plugin moves in half seconds
HalfStep == 500

PluginRequests ==
  [op : {"request"}, remoteAddress : {ClientIp, ProxyIp},
   forwardedFor : {<<>>, <<ClientIp, " 10.0.0.1">>},
   keyHeader : {<<>>, <<"a">>, <<"a", " ", "b">>},
   keyQuery : {<<>>}]

\* what a configured callback does when it is called
CallbackKinds == {"absent", "returns", "throws"}

PluginModes ==
  { [ip |-> [mode |-> "true"], key |-> [mode |-> "false"]],
    [ip |-> [mode |-> "object", allowList |-> {}, blockList |-> {ProxyIp},
             allowXForwardedFor |-> TRUE, allowXForwardedForFrom |-> {ProxyIp}],
     key |-> [mode |-> "false"]],
    [ip |-> [mode |-> "object", allowList |-> {ClientIp}, blockList |-> {},
             allowXForwardedFor |-> FALSE, allowXForwardedForFrom |-> {}],
     key |-> [mode |-> "true"]],
    [ip |-> [mode |-> "false"], key |-> [mode |-> "true"]],
    [ip |-> [mode |-> "false"],
     key |-> [mode |-> "object", allowList |-> {<<"a">>}, blockList |-> {<<"b">>},
              fallbackToIpOnMissingKey |-> TRUE]] }

\* both hooks are configured alike
PluginOptions ==
  {[ip |-> m.ip, key |-> m.key, onRateLimit |-> c, onBlock |-> c] :
     m \in PluginModes, c \in CallbackKinds}

\* windows of one second, with and without a block of one second
PluginLimits ==
  {c \in Configs : c.duration = 1 /\ c.blockDuration <= 1}

InitPlugin ==
  /\ StoreInit
  /\ cfg \in PluginLimits
  /\ options \in PluginOptions
  /\ req = NoRequest
  /\ resolved = NoOutcome
  /\ response = NoResponse
  /\ server = NoServer

\* server.ext('onPreAuth', ...): one request is handled
Handle(r) ==
  /\ req = NoRequest
  /\ LET h == onPreAuth(Here, r, options, cfg, now)
     IN /\ req' = r
        /\ resolved' = h.identifier
        /\ response' = h.response
        /\ storage' = h.st.storage
        /\ oldestKey' = h.st.oldestKey
        /\ oldestTime' = h.st.oldestTime
        /\ last' = IF h.consumed
                   THEN Done("consume", IdentifierString(h.identifier), h.result,
                             Here, h.st, now, last)
                   ELSE Done("none", Null, NoResult, Here, h.st, now, last)
  /\ UNCHANGED <<cleanupTimer, now, cfg, options, run, server>>

\* the response is sent
Finish ==
  /\ req # NoRequest
  /\ req' = NoRequest
  /\ resolved' = NoOutcome
  /\ response' = NoResponse
  /\ UNCHANGED <<storeVars, options, server>>

\* time passes between requests
PluginTick ==
  /\ req = NoRequest
  /\ now + HalfStep <= Horizon * MsPerSec
  /\ now' = now + HalfStep
  /\ last' = Done("tick", Null, NoResult, Here, Here, now, last)
  /\ UNCHANGED <<storage, oldestKey, oldestTime, cleanupTimer, cfg, run,
                 req, options, resolved, response, server>>

NextPlugin ==
  \/ \E r \in PluginRequests : Handle(r)
  \/ Finish
  \/ PluginTick

SpecPlugin == InitPlugin /\ [][NextPlugin]_vars

\* ------------------------------------------------------------------------
\* Claims about the handler
\* ------------------------------------------------------------------------
\* the part of a response the client sees
Outcome(resp) ==
  [decision |-> resp.decision, statusCode |-> resp.statusCode,
   retryAfter |-> resp.retryAfter, meta |-> resp.meta]

\* the same request handled in the same store with hooks that behave as c
HandledWith(c) ==
  onPreAuth(Here, req', [options EXCEPT !.onRateLimit = c, !.onBlock = c], cfg, now)

\* C16: when onRateLimit or onBlock throws, the failure is caught and logged
\* and the request ends as with a hook that returns: 429 with the same
\* retryAfter after a denied consume, 403 after a blocked identifier, and the
\* same store in both runs
C16_CallbackIsolated ==
  [][(req = NoRequest /\ req' # NoRequest) =>
       /\ \A c \in {"returns", "throws"} :
            /\ Outcome(HandledWith(c).response) = Outcome(response')
            /\ HandledWith(c).st = Store(storage', oldestKey', oldestTime')
       /\ response'.decision # "error"
       /\ (response'.notified /\ options.onRateLimit = "throws") => response'.logged
       /\ (last'.op = "consume" /\ ~last'.result.success)
            => (response'.statusCode = 429 /\ response'.decision = "denied")
       /\ resolved'.kind \in {"BlockedIpError", "BlockedApiKeyError"}
            => (response'.statusCode = 403 /\ response'.decision = "forbidden")
    ]_vars

\* a denied consume whose onRateLimit hook threw: 429, logged
C16_Witness ==
  /\ req # NoRequest
  /\ options.onRateLimit = "throws"
  /\ response.decision = "denied"
  /\ response.statusCode = 429
  /\ response.notified
  /\ response.logged

\* a blocked identifier whose onBlock hook threw: 403, logged
C16_WitnessBlocked ==
  /\ req # NoRequest
  /\ options.onBlock = "throws"
  /\ response.decision = "forbidden"
  /\ response.statusCode = 403
  /\ response.notified
  /\ response.logged

\* C17: a request resolved to bypass (null), to no identifier (undefined) or
\* to a blocked identifier does not call consume: the entries of the store and
\* the eviction hint are as before; bypass and no identifier continue without
\* rate-limit metadata, a blocked identifier is forbidden (403), and none of
\* them is denied (429)
C17_NoConsumeWithoutIdentifier ==
  (req # NoRequest /\ resolved.kind # "identifier") =>
    /\ last.op = "none"
    /\ last.added = {} /\ last.removed = {} /\ last.changed = {}
    /\ last.hintKept
    /\ response.decision # "denied"
    /\ resolved.kind \in {"null", "undefined"}
         => (response.decision = "continue" /\ response.meta = NoMeta)
    /\ resolved.kind \in {"BlockedIpError", "BlockedApiKeyError"}
         => (response.decision = "forbidden" /\ response.statusCode = 403
             /\ response.meta = NoMeta)

\* an allow-listed address passes while another client's entry is stored
C17_Witness ==
  /\ req # NoRequest
  /\ resolved = Bypass
  /\ storage # <<>>
  /\ response = Continue(NoMeta)

\* a blocked address is refused while the store is full
C17_WitnessBlocked ==
  /\ req # NoRequest
  /\ resolved.kind = "BlockedIpError"
  /\ Len(storage) = cfg.maxSize
  /\ response.decision = "forbidden"

\* a request without identifier passes while an entry is stored
C17_WitnessNoIdentifier ==
  /\ req # NoRequest
  /\ resolved = NoIdentifier
  /\ storage # <<>>
  /\ response = Continue(NoMeta)

\* C18: every denied consume returns a resetTime strictly greater than the
\* now it was called with, so the retryAfter of every 429, which is
\* ceil((resetTime - now) / 1000), is at least 1
C18_RetryAfterPositive ==
  /\ (last.op = "consume" /\ ~last.result.success) => last.result.resetTime > now
  /\ response.decision = "denied" =>
       /\ response.retryAfter >= 1
       /\ (response.retryAfter - 1) * MsPerSec < last.result.resetTime - now
       /\ last.result.resetTime - now <= response.retryAfter * MsPerSec

\* a denial half a second before the window ends: retryAfter is 1
C18_Witness ==
  /\ response.decision = "denied"
  /\ last.op = "consume"
  /\ last.result.resetTime - now = HalfStep
  /\ response.retryAfter = 1

\* a denial by a block that was just set for one second
C18_WitnessBlock ==
  /\ response.decision = "denied"
  /\ last.op = "consume"
  /\ last.pre.blockedUntil = Undefined
  /\ last.result.resetTime = now + MsPerSec
  /\ now % MsPerSec = HalfStep
  /\ response.retryAfter = 1

\* C19: destroy() stops the periodic sweep and empties the store: once the
\* timer is stopped it stays stopped and no sweep runs, and a destroy that
\* follows a destroy leaves entries, hint and timer as the first one left them
C19_DestroyStopsSweep ==
  [][/\ last'.op = "destroy" => (storage' = <<>> /\ ~cleanupTimer')
     /\ ~cleanupTimer => (~cleanupTimer' /\ last'.op # "cleanup")
     /\ (last.op = "destroy" /\ last'.op = "destroy")
          => UNCHANGED <<storage, oldestKey, oldestTime, cleanupTimer>>
    ]_vars

\* destroy emptied a store that held entries, and the timer is stopped
C19_Witness ==
  /\ last.op = "destroy"
  /\ last.changed = {} /\ last.added = {}
  /\ oldestKey # Null
  /\ storage = <<>>
  /\ ~cleanupTimer

\* the store is used again after destroy, at a time when a sweep would have
\* removed the expired entry
C19_WitnessUsedAfter ==
  /\ ~cleanupTimer
  /\ storage # <<>>
  /\ \E i \in 1..Len(storage) : IsSwept(storage[i], now)

\* C20: every stored entry has points >= 0 and has blockedUntil set only when
\* its points are 0; every consume result has remainingPoints >= 0, and a
\* denial reports remainingPoints = 0
C20_PointsNeverNegative ==
  /\ \A i \in 1..Len(storage) :
       /\ storage[i].points >= 0
       /\ Truthy(storage[i].blockedUntil) => storage[i].points = 0
  /\ last.op = "consume" =>
       /\ last.result.remainingPoints >= 0
       /\ ~last.result.success => last.result.remainingPoints = 0

\* with points >= 2 an entry was used up and then blocked by a denied consume
C20_Witness ==
  /\ cfg.points >= 2
  /\ last.op = "consume"
  /\ ~last.result.success
  /\ last.result.remainingPoints = 0
  /\ Has(storage, last.key)
  /\ Truthy(Get(storage, last.key).blockedUntil)
  /\ Get(storage, last.key).points = 0

\* ------------------------------------------------------------------------
\* rati: route versioning plugin
\* ------------------------------------------------------------------------
\* Strings are sequences of symbols: "/" and names without a slash, so that
\* "/api/v1" is <<"/", "api", "/", "v1">> and the empty string is <<>>.
\* the application registers at most MaxRoutes routes
MaxRoutes == 2

Slash == "/"

EmptyString == <<>>

\* an option or a key of a route config that is not given
Absent == <<"undefined">>

\* truthiness of an optional string
Given(x) == x # Absent /\ x # EmptyString

Path(names) == [i \in 1..(2 * Len(names)) |-> IF i % 2 = 1 THEN Slash ELSE names[i \div 2]]

RootPath == <<Slash>>

startsWith(x, prefix) ==
  Len(prefix) <= Len(x) /\ SubSeq(x, 1, Len(prefix)) = prefix

slice(x, n) == SubSeq(x, n + 1, Len(x))

\* parts.join('/')
RECURSIVE join(_)
join(parts) ==
  IF parts = <<>> THEN EmptyString
  ELSE IF Len(parts) = 1 THEN parts[1]
  ELSE parts[1] \o <<Slash>> \o join(Tail(parts))

\* x.replaceAll(/\/+/g, '/')
RECURSIVE collapseSlashes(_)
collapseSlashes(x) ==
  IF Len(x) < 2 THEN x
  ELSE IF x[1] = Slash /\ x[2] = Slash THEN collapseSlashes(Tail(x))
  ELSE <<x[1]>> \o collapseSlashes(Tail(x))

\* defaultOptions
\* enabled is "absent", "true" or "false"
defaultOptions == [version |-> <<"v1">>, prefix |-> <<"api">>, enabled |-> "absent"]

\* applyToDefaults(defaultOptions, value)
applyToDefaults(defaults, value) ==
  [version |-> IF value.version # Absent THEN value.version ELSE defaults.version,
   prefix |-> IF value.prefix # Absent THEN value.prefix ELSE defaults.prefix,
   enabled |-> IF value.enabled # "absent" THEN value.enabled ELSE defaults.enabled]

\* faulty variant: the version is left out of the prefix
normalizedPrefixNoVersion(mergedOptions) ==
  IF Given(mergedOptions.prefix)
  THEN <<Slash>> \o mergedOptions.prefix ELSE EmptyString

\* parts.length ? '/' + parts.join('/') : ''
normalizedPrefix(mergedOptions) ==
  LET parts == (IF Given(mergedOptions.prefix) THEN <<mergedOptions.prefix>> ELSE <<>>)
               \o (IF Given(mergedOptions.version) THEN <<mergedOptions.version>> ELSE <<>>)
  IN IF Len(parts) > 0 THEN <<Slash>> \o join(parts) ELSE EmptyString

\* normalizedPrefix || existing
globalPrefixOf(mergedOptions, existing) ==
  IF normalizedPrefix(mergedOptions) # EmptyString
  THEN normalizedPrefix(mergedOptions) ELSE existing

stripGlobal(globalPrefix, path) ==
  IF globalPrefix = EmptyString THEN path
  ELSE IF startsWith(path, globalPrefix)
       THEN LET trimmed == slice(path, Len(globalPrefix))
            IN IF Len(trimmed) > 0 THEN trimmed ELSE RootPath
       ELSE path

buildVersionedPath(originalPath, prefix, version) ==
  LET cleanPath == IF startsWith(originalPath, <<Slash>>)
                   THEN slice(originalPath, 1) ELSE originalPath
      segments == (IF Given(prefix) THEN <<prefix>> ELSE <<>>)
                  \o (IF Given(version) THEN <<version>> ELSE <<>>)
                  \o (IF cleanPath # EmptyString THEN <<cleanPath>> ELSE <<>>)
  IN <<Slash>> \o collapseSlashes(join(segments))

\* route.settings.plugins.rati: undefined, false or an object
NoRati == [kind |-> "undefined"]

RatiFalse == [kind |-> "false"]

RatiObject(enabled, prefix, version) ==
  [kind |-> "object", enabled |-> enabled, prefix |-> prefix, version |-> version]

\* ratiConfig === false || ratiConfig?.enabled === false
IsDisabled(ratiConfig) ==
  \/ ratiConfig.kind = "false"
  \/ (ratiConfig.kind = "object" /\ ratiConfig.enabled = "false")

\* hapi: the path a route gets in a realm with a route prefix
prefixedPath(realmPrefix, path) ==
  IF realmPrefix # EmptyString
  THEN realmPrefix \o (IF path # RootPath THEN path ELSE EmptyString)
  ELSE path

\* hapi: a route of the same method and path is in the table
Conflicts(table, method, path) ==
  \E i \in 1..Len(table) : table[i].method = method /\ table[i].path = path

\* hapi: server.route in a realm; the call throws (failed) when the path does
\* not start with a slash or the route is in the table already
\*   declared   the path handed to server.route
\*   origin     "app" for the application's routes, "alias" for the plugin's
\*   early      the route was added before the plugin was registered
\*   source     for an alias, the position of the route it was made for
route(sv, realmPrefix, method, path, handler, rati, origin, source) ==
  LET full == prefixedPath(realmPrefix, path)
  IN IF ~startsWith(path, <<Slash>>) \/ Conflicts(sv.table, method, full)
     THEN [sv EXCEPT !.failed = TRUE, !.refused = <<method, full>>]
     ELSE [sv EXCEPT !.table = Append(@,
             [method |-> method, path |-> full, handler |-> handler, rati |-> rati,
              declared |-> path, origin |-> origin, source |-> source,
              early |-> ~sv.registered])]

\* the alias the onPreStart loop wants for one route, if any
\* faulty variant: a per-route override is ignored
aliasForGlobalOnly(sv, r) ==
  LET originalPath == stripGlobal(sv.globalPrefix, r.path)
  IN IF r.rati.kind = "undefined" THEN [wanted |-> FALSE]
     ELSE IF IsDisabled(r.rati) THEN [wanted |-> TRUE, path |-> originalPath]
     ELSE LET aliasPath == buildVersionedPath(originalPath, sv.options.prefix,
                                              sv.options.version)
          IN IF aliasPath # r.path THEN [wanted |-> TRUE, path |-> aliasPath]
             ELSE [wanted |-> FALSE]

\* one pass of the loop body: lines 94-118
aliasFor(sv, r) ==
  LET originalPath == stripGlobal(sv.globalPrefix, r.path)
  IN IF r.rati.kind = "undefined" THEN [wanted |-> FALSE]
     ELSE IF IsDisabled(r.rati) THEN [wanted |-> TRUE, path |-> originalPath]
     ELSE LET hasPrefix == r.rati.kind = "object" /\ r.rati.prefix # Absent
              hasVersion == r.rati.kind = "object" /\ r.rati.version # Absent
              overridePrefix == IF hasPrefix THEN r.rati.prefix ELSE sv.options.prefix
              overrideVersion == IF hasVersion THEN r.rati.version ELSE sv.options.version
              aliasPath == buildVersionedPath(originalPath, overridePrefix, overrideVersion)
          IN IF aliasPath # r.path THEN [wanted |-> TRUE, path |-> aliasPath]
             ELSE [wanted |-> FALSE]

\* for (const route of routes): routes is the table when the hook starts; a
\* throwing server.route ends the loop
RECURSIVE preStartLoop(_, _, _)
preStartLoop(sv, routes, i) ==
  IF i > Len(routes) \/ sv.failed THEN sv
  ELSE LET a == aliasFor(sv, routes[i])
       IN preStartLoop(
            IF a.wanted
            THEN route(sv, sv.pluginPrefix, routes[i].method, a.path,
                       routes[i].handler, NoRati, "alias", i)
            ELSE sv,
            routes, i + 1)

onPreStart(sv) == preStartLoop(sv, sv.table, 1)

\* register: lines 24-58
register(sv, pluginOptions) ==
  LET mergedOptions == applyToDefaults(defaultOptions, pluginOptions)
      registered == [sv EXCEPT !.registered = TRUE, !.options = mergedOptions,
                               !.pluginPrefix = sv.rootPrefix]
  IN IF mergedOptions.enabled = "false" THEN registered
     ELSE [registered EXCEPT
             !.globalPrefix = globalPrefixOf(mergedOptions, sv.rootPrefix),
             !.rootPrefix = globalPrefixOf(mergedOptions, sv.rootPrefix),
             !.hooked = TRUE]

\* ------------------------------------------------------------------------
\* rati: state machine
\* ------------------------------------------------------------------------
RatiOptions ==
  { [prefix |-> Absent, version |-> Absent, enabled |-> "absent"],
    [prefix |-> Absent, version |-> Absent, enabled |-> "false"],
    [prefix |-> EmptyString, version |-> EmptyString, enabled |-> "absent"],
    [prefix |-> <<"service">>, version |-> <<"v2">>, enabled |-> "true"],
    [prefix |-> Absent, version |-> EmptyString, enabled |-> "absent"],
    [prefix |-> EmptyString, version |-> Absent, enabled |-> "absent"] }

RouteConfigs ==
  { NoRati, RatiFalse,
    RatiObject("false", Absent, Absent),
    RatiObject("absent", Absent, Absent),
    RatiObject("absent", Absent, <<"v2">>),
    RatiObject("absent", <<"service">>, Absent),
    RatiObject("absent", <<"api">>, <<"v1">>),
    RatiObject("absent", EmptyString, EmptyString) }

AppPaths == {RootPath, Path(<<"users">>)}

\* the root realm's route prefix before the plugin is registered
ExistingPrefixes == {EmptyString, Path(<<"base">>)}

NewServer(existing) ==
  [phase |-> "new", existing |-> existing, rootPrefix |-> existing,
   pluginPrefix |-> EmptyString, globalPrefix |-> EmptyString,
   registered |-> FALSE, hooked |-> FALSE, options |-> defaultOptions,
   table |-> <<>>, failed |-> FALSE, refused |-> <<>>]

AppRoutes(sv) == {i \in 1..Len(sv.table) : sv.table[i].origin = "app"}

InitRati ==
  /\ StoreIdle
  /\ req = NoRequest
  /\ options = [ip |-> [mode |-> "true"], key |-> [mode |-> "false"]]
  /\ resolved = NoOutcome
  /\ response = NoResponse
  /\ server \in {NewServer(e) : e \in ExistingPrefixes}

\* the application calls server.route on the root server; a call that hapi
\* refuses leaves the server as it was
AddRoute(path, rati) ==
  /\ server.phase = "new"
  /\ Cardinality(AppRoutes(server)) < MaxRoutes
  /\ LET sv == route(server, server.rootPrefix, "get", path,
                     Cardinality(AppRoutes(server)) + 1, rati, "app", 0)
     IN /\ ~sv.failed
        /\ server' = sv

\* server.register({ plugin, options })
Register(o) ==
  /\ server.phase = "new"
  /\ ~server.registered
  /\ server' = register(server, o)

\* server.initialize(): the onPreStart hook runs if the plugin installed it
Initialize ==
  /\ server.phase = "new"
  /\ server.registered
  /\ server' = [(IF server.hooked THEN onPreStart(server) ELSE server)
                  EXCEPT !.phase = "started"]

NextRati ==
  \/ \E path \in AppPaths, rati \in RouteConfigs :
       AddRoute(path, rati) /\ UNCHANGED <<storeVars, req, options, resolved, response>>
  \/ \E o \in RatiOptions :
       Register(o) /\ UNCHANGED <<storeVars, req, options, resolved, response>>
  \/ Initialize /\ UNCHANGED <<storeVars, req, options, resolved, response>>

SpecRati == InitRati /\ [][NextRati]_vars

\* ------------------------------------------------------------------------
\* rati: claims
\* ------------------------------------------------------------------------
\* '/' + part for each non-empty part, in order
Slashed(parts) ==
  LET RECURSIVE Go(_)
      Go(i) == IF i > Len(parts) THEN EmptyString
               ELSE (IF parts[i] = EmptyString THEN EmptyString
                     ELSE <<Slash>> \o parts[i]) \o Go(i + 1)
  IN Go(1)

Registered == server.phase # "none" /\ server.registered

LateAppRoutes == {i \in AppRoutes(server) : ~server.table[i].early}

\* C21: registering the plugin enabled sets the root route prefix to '/' plus
\* the non-empty prefix and version options joined by '/' ('/api/v1' by
\* default), so a route registered afterwards as /p is served at
\* /<prefix>/<version>/p; with both options empty the existing root prefix is
\* kept; with enabled = false the prefix is unchanged and routes are served at
\* their own paths.
C21_RootPrefix ==
  Registered =>
    LET o == server.options
        wanted == Slashed(<<o.prefix, o.version>>)
    IN IF o.enabled = "false"
       THEN /\ server.rootPrefix = server.existing
            /\ \A i \in AppRoutes(server) :
                 server.table[i].path =
                   prefixedPath(server.existing, server.table[i].declared)
       ELSE /\ server.rootPrefix = (IF wanted = EmptyString THEN server.existing ELSE wanted)
            /\ \A i \in LateAppRoutes :
                 server.table[i].path =
                   IF server.rootPrefix = EmptyString \/ server.table[i].declared # RootPath
                   THEN server.rootPrefix \o server.table[i].declared
                   ELSE server.rootPrefix

C21_Witness ==
  /\ Registered
  /\ server.options = [defaultOptions EXCEPT !.enabled = "absent"]
  /\ server.rootPrefix = <<"/", "api", "/", "v1">>
  /\ \E i \in LateAppRoutes :
       /\ server.table[i].declared = <<"/", "users">>
       /\ server.table[i].path = <<"/", "api", "/", "v1", "/", "users">>

C21_WitnessKept ==
  /\ Registered
  /\ server.options.enabled # "false"
  /\ server.options.prefix = EmptyString /\ server.options.version = EmptyString
  /\ server.existing = <<"/", "base">>
  /\ server.rootPrefix = <<"/", "base">>
  /\ LateAppRoutes # {}

C21_WitnessDisabled ==
  /\ Registered
  /\ server.options.enabled = "false"
  /\ server.existing = EmptyString
  /\ \E i \in LateAppRoutes : server.table[i].path = <<"/", "users">>

\* the server started with the plugin's hook run to its end, on a root realm
\* that had no route prefix of its own
Started ==
  /\ server.phase = "started"
  /\ server.hooked
  /\ ~server.failed
  /\ server.existing = EmptyString

\* application routes whose rati config is an object that is not disabled
Versioned ==
  {i \in AppRoutes(server) :
     server.table[i].rati.kind = "object" /\ ~IsDisabled(server.table[i].rati)}

\* application routes with rati: false or rati.enabled === false
Unversioned == {i \in AppRoutes(server) : IsDisabled(server.table[i].rati)}

\* a route of this method and handler is in the table at this path
Serves(method, path, handler) ==
  \E j \in 1..Len(server.table) :
    /\ server.table[j].method = method
    /\ server.table[j].path = path
    /\ server.table[j].handler = handler

\* '/' + [override prefix, override version, original path] joined by '/',
\* empty parts left out, '/' adding no segment
ExpectedAlias(r) ==
  LET p == IF r.rati.prefix # Absent THEN r.rati.prefix ELSE server.options.prefix
      v == IF r.rati.version # Absent THEN r.rati.version ELSE server.options.version
      joined == Slashed(<<p, v>>) \o (IF r.declared = RootPath THEN EmptyString ELSE r.declared)
  IN IF joined = EmptyString THEN RootPath ELSE joined

\* the path a route has under the global prefix
GloballyPrefixed(r) ==
  IF server.globalPrefix = EmptyString THEN r.declared
  ELSE server.globalPrefix \o (IF r.declared = RootPath THEN EmptyString ELSE r.declared)

C22_WitnessEarly ==
  /\ Started
  /\ server.globalPrefix # EmptyString
  /\ \E i \in Versioned :
       /\ server.table[i].early
       /\ \E j \in 1..Len(server.table) :
            server.table[j].origin = "alias" /\ server.table[j].source = i

C22_WitnessRoot ==
  /\ Started
  /\ \E i \in Versioned :
       /\ server.table[i].declared = RootPath
       /\ server.table[i].rati.prefix = <<"service">>
       /\ \E j \in 1..Len(server.table) :
            /\ server.table[j].origin = "alias"
            /\ server.table[j].source = i
            /\ server.table[j].path = <<"/", "service", "/", "v1">>

\* server.initialize() has run the plugin's hook, to its end or to a refused
\* server.route call, on a root realm that had no route prefix of its own
Initialized ==
  /\ server.phase = "started"
  /\ server.hooked
  /\ server.existing = EmptyString

\* C23: for a route with rati: false or rati.enabled === false, pre-start
\* registers an alias with the same method and handler at the route's path
\* with the global prefix stripped, and the route stays reachable at the
\* globally prefixed path.
C23_DisabledAlias ==
  Initialized =>
    \A i \in Unversioned :
      LET r == server.table[i]
      IN /\ \E j \in 1..Len(server.table) :
              /\ server.table[j].origin = "alias"
              /\ server.table[j].source = i
              /\ server.table[j].method = r.method
              /\ server.table[j].handler = r.handler
              /\ server.table[j].path = stripGlobal(server.globalPrefix, r.path)
         /\ Serves(r.method, GloballyPrefixed(r), r.handler)

\* C24: the plugin never asks for an alias whose method and path are those of
\* a route already in the table, so that after pre-start the table holds at
\* most one route per method and path.
C24_NoDuplicateAlias ==
  server.phase = "started" =>
    /\ server.refused = <<>>
    /\ \A i, j \in 1..Len(server.table) :
         (server.table[i].method = server.table[j].method
            /\ server.table[i].path = server.table[j].path) => i = j

\* ------------------------------------------------------------------------
\* History: the successful consumes of one identifier inside one window, with
\* consumes of other identifiers, getStatus calls and sweeps in between
\* ------------------------------------------------------------------------
\* run.id is the identifier, run.first the time t0 of the consume that created
\* the window, run.n the number of its consumes with t0 <= now < resetTime
\* that succeeded (counted up to points + 1), run.evicted whether the entry
\* was removed from the store inside the window
BudgetLive == run.id # Null /\ now < run.first + cfg.duration * MsPerSec

BudgetOnConsume(k) ==
  run' = IF BudgetLive
         THEN IF k = run.id
              THEN [run EXCEPT !.n = Min(@ + (IF last'.result.success THEN 1 ELSE 0),
                                         cfg.points + 1)]
              ELSE [run EXCEPT !.evicted = @ \/ (Has(storage, run.id)
                                                 /\ ~Has(storage', run.id))]
         ELSE IF IsFreshWindow(storage, k, now)
              THEN [id |-> k, first |-> now, n |-> 1, evicted |-> FALSE]
              ELSE NoRun

NextBudget ==
  \/ \E k \in Clients : Consume(k) /\ BudgetOnConsume(k)
                    /\ UNCHANGED <<req, options, resolved, response, server>>
  \/ \E k \in Clients : GetStatus(k) /\ UNCHANGED <<run, req, options, resolved, response, server>>
  \/ Cleanup /\ UNCHANGED <<run, req, options, resolved, response, server>>
  \/ Tick /\ UNCHANGED <<run, req, options, resolved, response, server>>

SpecBudget == Init /\ [][NextBudget]_vars

\* C25 as stated: of the consumes for an identifier that fall inside a window
\* created for it, at most `points` succeed, whatever consumes for other
\* identifiers, getStatus calls and sweeps run in between, including when the
\* store is at maxSize.
C25_BudgetAlways ==
  run.id # Null => run.n <= cfg.points

\* C25 amended: the same, as long as the identifier's entry is not evicted
\* inside the window.
C25_BudgetUnlessEvicted ==
  (run.id # Null /\ ~run.evicted) => run.n <= cfg.points

\* inside the window, with the store full and another identifier's consume
\* in between, the identifier has used its points and is denied
C25_Witness ==
  /\ run.id # Null
  /\ ~run.evicted
  /\ run.n = cfg.points
  /\ Len(storage) = cfg.maxSize
  /\ Len(storage) >= 2
  /\ last.op = "consume"
  /\ last.key = run.id
  /\ ~last.result.success

\* ------------------------------------------------------------------------
\* Handlers in flight: onPreAuth runs up to its await in one step (Date.now(),
\* the identifier, the whole of consume, which has no await of its own) and
\* from its await to its return in a second step; at most MaxInFlight
\* handlers start before all of them have returned
\* ------------------------------------------------------------------------
MaxInFlight == 3

\* no callbacks configured
NoCallbacks == [onRateLimit |-> "absent", onBlock |-> "absent"]

\* faulty variant: consume works on the store as it was when the first of the
\* handlers in flight started
storeAtCallStale(atStart, current) == atStart

\* const entry = this.storage.get(key): the store as it is when consume is called
storeAtCall(atStart, current) == current

\* the points an identifier has left in its window before a consume at time t
PointsLeft(s, k, t) ==
  IF IsFreshWindow(s, k, t) THEN cfg.points ELSE Get(s, k).points

\* the time the identifier's window ends, for a consume at time t
WindowOf(s, k, t) ==
  IF IsFreshWindow(s, k, t) THEN t + cfg.duration * MsPerSec ELSE Get(s, k).resetTime

\* req is the sequence of handlers waiting at their await; run describes the
\* handlers that started since req was last empty:
\*   id        the identifier of the first of them
\*   left      the points it had left before that handler's consume
\*   until     the end of its window
\*   m         how many handlers for id started
\*   ok        how many of their consumes succeeded
\*   others    how many handlers for other identifiers started among them
\*   atStart   the store before the first of them
InFlightInit ==
  /\ StoreInit
  /\ cfg \in {c \in Configs : c.maxSize = 1}
  /\ req = <<>>
  /\ options = [ip |-> [mode |-> "true"], key |-> [mode |-> "false"]]
  /\ resolved = NoOutcome
  /\ response = NoResponse
  /\ server = NoServer

\* lines 1042-1051: the handler up to `await storage.consume(...)`
Begin(k) ==
  /\ IF req = <<>> THEN TRUE ELSE run.m + run.others < MaxInFlight
  /\ LET first == req = <<>>
         atStart == IF first THEN Here ELSE run.atStart
         r == consume(storeAtCall(atStart, Here), k, cfg.points, cfg.duration,
                      cfg.blockDuration, cfg.maxSize, now)
         won == IF r.result.success THEN 1 ELSE 0
     IN /\ storage' = r.st.storage
        /\ oldestKey' = r.st.oldestKey
        /\ oldestTime' = r.st.oldestTime
        /\ last' = Done("consume", k, r.result, Here, r.st, now, last)
        /\ req' = Append(req, [key |-> k, result |-> r.result, now |-> now])
        /\ run' = IF first
                  THEN [id |-> k, left |-> PointsLeft(storage, k, now),
                        until |-> WindowOf(storage, k, now), m |-> 1, ok |-> won,
                        others |-> 0, atStart |-> Here]
                  ELSE IF k = run.id
                  THEN [run EXCEPT !.m = @ + 1, !.ok = @ + won]
                  ELSE [run EXCEPT !.others = @ + 1]
  /\ UNCHANGED <<cleanupTimer, now, cfg, options, resolved, response, server>>

\* lines 1053-1067: the handler from its await to its return; the
\* continuations run in the order in which their promises were resolved
Resume ==
  /\ req # <<>>
  /\ LET h == Head(req)
         meta == [limit |-> cfg.points, remaining |-> Max(0, h.result.remainingPoints),
                  reset |-> h.result.resetTime]
     IN response' = IF ~h.result.success
                    THEN handleRateLimitExceeded(NoCallbacks, meta, h.result, h.now)
                    ELSE Continue(meta)
  /\ req' = Tail(req)
  /\ run' = IF Tail(req) = <<>> THEN NoRun ELSE run
  /\ UNCHANGED <<storage, oldestKey, oldestTime, cleanupTimer, now, cfg, last,
                 options, resolved, server>>

NextInFlight ==
  \/ \E k \in Clients : Begin(k)
  \/ Resume
  \/ Tick /\ UNCHANGED <<run, req, options, resolved, response, server>>

SpecInFlight == InFlightInit /\ [][NextInFlight]_vars

\* handlers for one identifier only are waiting, all started inside its window
SameWindowBatch ==
  /\ req # <<>>
  /\ run.others = 0
  /\ now < run.until

\* C26: when m requests for one identifier are in flight together in a window
\* with k points left, exactly min(k, m) of their consumes succeed, and the
\* entry keeps k - min(k, m) >= 0 points (no lost update).
C26_NoLostUpdate ==
  SameWindowBatch =>
    /\ run.ok = Min(run.left, run.m)
    /\ Has(storage, run.id)
    /\ Get(storage, run.id).points = run.left - run.ok
    /\ Get(storage, run.id).points >= 0

\* three handlers wait at their await, their window had two points left
C26_Witness ==
  /\ SameWindowBatch
  /\ Len(req) = 3
  /\ run.m = 3
  /\ run.left = 2
  /\ run.ok = 2
  /\ ~req[3].result.success

\* two handlers wait, both served out of a window with points to spare
C26_WitnessSpare ==
  /\ SameWindowBatch
  /\ Len(req) = 2
  /\ run.m = 2
  /\ run.left = 2
  /\ run.ok = 2

\* ------------------------------------------------------------------------
\* The store called directly: consume takes blockDuration with each call
\* ------------------------------------------------------------------------
\* the blockDuration a caller passes: the configured one or none
BlockDurations == {0, cfg.blockDuration}

\* storage.consume(key, points, duration, blockDuration, now); run records the
\* blockDuration of the call
ConsumeWith(k, blockDuration) ==
  LET r == consume(Here, k, cfg.points, cfg.duration, blockDuration, cfg.maxSize, now)
  IN /\ storage' = r.st.storage
     /\ oldestKey' = r.st.oldestKey
     /\ oldestTime' = r.st.oldestTime
     /\ last' = Done("consume", k, r.result, Here, r.st, now, last)
     /\ run' = [id |-> k, blockDuration |-> blockDuration]
     /\ UNCHANGED <<cleanupTimer, now, cfg>>

NextCalls ==
  \/ \E k \in Clients, b \in BlockDurations :
       ConsumeWith(k, b) /\ UNCHANGED <<req, options, resolved, response, server>>
  \/ Cleanup /\ UNCHANGED <<run, req, options, resolved, response, server>>
  \/ Tick /\ UNCHANGED <<run, req, options, resolved, response, server>>

SpecCalls == Init /\ [][NextCalls]_vars

\* the last operation was a consume for an entry with no points left whose
\* block had expired while its window was still live
LapsedBlock ==
  /\ last.op = "consume"
  /\ run.id = last.key
  /\ last.pre.key # Null
  /\ Truthy(last.pre.blockedUntil)
  /\ last.pre.blockedUntil <= now
  /\ last.pre.resetTime > now
  /\ last.pre.points = 0

\* C27: a consume that finds an expired block on a live window clears the
\* block and evaluates the same entry in the same call: with no points left
\* it is denied, with blockDuration > 0 under a new block
\* blockedUntil = now + blockDuration * 1000 returned as resetTime, with
\* blockDuration = 0 with no block and the unchanged window resetTime.
C27_LapsedBlockReevaluated ==
  LapsedBlock =>
    /\ ~last.result.success
    /\ last.result.remainingPoints = 0
    /\ Has(storage, last.key)
    /\ Get(storage, last.key).points = 0
    /\ Get(storage, last.key).resetTime = last.pre.resetTime
    /\ IF run.blockDuration > 0
       THEN /\ Get(storage, last.key).blockedUntil = now + run.blockDuration * MsPerSec
            /\ last.result.resetTime = now + run.blockDuration * MsPerSec
       ELSE /\ Get(storage, last.key).blockedUntil = Undefined
            /\ last.result.resetTime = last.pre.resetTime

C27_Witness ==
  /\ LapsedBlock
  /\ run.blockDuration > 0
  /\ Get(storage, last.key).blockedUntil > last.pre.blockedUntil

C27_WitnessNoBlock ==
  /\ LapsedBlock
  /\ run.blockDuration = 0
  /\ Get(storage, last.key).blockedUntil = Undefined

\* the last operation was a consume for an entry whose window was live and
\* whose block was active
ActiveBlock ==
  /\ last.op = "consume"
  /\ last.pre.key # Null
  /\ last.pre.resetTime > now
  /\ Truthy(last.pre.blockedUntil)
  /\ last.pre.blockedUntil > now

Sweepable ==
  {k \in Keys(storage) :
     /\ Get(storage, k).resetTime <= now
     /\ (Get(storage, k).blockedUntil = Undefined \/ Get(storage, k).blockedUntil <= now)}

\* C29: a sweep at time t removes exactly the entries with resetTime <= t and
\* no block or blockedUntil <= t; an entry whose window is live or whose block
\* is active stays, and no field of an entry that stays is changed.
C29_SweepExact ==
  [][last'.op = "cleanup" =>
       /\ Keys(storage') = Keys(storage) \ Sweepable
       /\ \A k \in Keys(storage') : Get(storage', k) = Get(storage, k)]_vars

\* a sweep removed an entry and kept one whose window was over but whose
\* block was still running
C29_Witness ==
  /\ last.op = "cleanup"
  /\ last.removed # {}
  /\ \E k \in Keys(storage) :
       /\ Get(storage, k).resetTime <= now
       /\ Get(storage, k).blockedUntil > now

\* the last operation was a consume for an identifier whose own entry was in
\* the store with its window over
OwnEntryRefreshed ==
  /\ last.op = "consume"
  /\ last.pre.key # Null
  /\ last.pre.resetTime <= now

\* C30: a consume that refreshes the identifier's own expired entry evicts
\* nothing, also when the store holds maxSize entries: every other entry is
\* as it was and the size of the store is unchanged.
C30_RefreshEvictsNothing ==
  OwnEntryRefreshed =>
    /\ last.removed = {}
    /\ last.added = {}
    /\ last.changed = {last.key}
    /\ StoredFresh

\* the refreshed entry was one of maxSize >= 2 entries
C30_Witness ==
  /\ OwnEntryRefreshed
  /\ Len(storage) = cfg.maxSize
  /\ Len(storage) >= 2
  /\ last.result.success

====
